---- MODULE Spec2Model ----
(***************************************************************************)
(* Model of the moment-aggregation engine of video_search.py: the request  *)
(* handlers compute_averages, aggregated_graphs / aggregated_results       *)
(* (aggregated_line, aggregated_box) and update_metrics, run against the   *)
(* per-video CSV datasets of CSV_FOLDER.                                   *)
(*                                                                         *)
(* Times are integers in hundredths of a second (0.05 s is 5).  Measure    *)
(* values and every derived quantity (means, grid points, interpolated     *)
(* values) are exact rationals <<n, d>>; <<0, 0>> is NaN.                  *)
(***************************************************************************)
EXTENDS Integers, Sequences, FiniteSets, Bags, TLC

VARIABLES store, request, response, cache, sessionStorage, page, pyplot, calls

vars == <<store, request, response, cache, sessionStorage, page, pyplot, calls>>

(***************************************************************************)
(* Bounds of the model.                                                    *)
(***************************************************************************)
MaxMoments == 2
MaxSamples == 3
MaxQuery == 2

(***************************************************************************)
(* Program constants.                                                      *)
(***************************************************************************)
tol == 5
GridPoints == 100

ORDERED_MEASURES ==
    << "Approach / Withdraw", "Engagement", "Emotional Intensity",
       "Memory Encoding - Detail", "Memory Encoding - Global",
       "Memory Encoding - Composite", "General Attention - Detail",
       "General Attention - Global", "General Attention - Composite",
       "Visual Attention - Detail", "Visual Attention - Global",
       "Visual Attention - Composite" >>

MeasureSet == { ORDERED_MEASURES[i] : i \in DOMAIN ORDERED_MEASURES }

(***************************************************************************)
(* Exact arithmetic standing for the floats of the program.                *)
(***************************************************************************)
Abs(x) == IF x < 0 THEN -x ELSE x

RECURSIVE Gcd(_, _)
Gcd(a, b) == IF b = 0 THEN a ELSE Gcd(b, a % b)

NaN == <<0, 0>>
IsNaN(q) == q[2] = 0

Rat(n, d) ==
    IF d = 0 THEN NaN
    ELSE LET g == Gcd(Abs(n), Abs(d))
             s == IF d < 0 THEN -1 ELSE 1
         IN  << (s * n) \div g, (s * d) \div g >>

RatOf(n) == <<n, 1>>
RAdd(p, q) == IF IsNaN(p) \/ IsNaN(q) THEN NaN
              ELSE Rat(p[1] * q[2] + q[1] * p[2], p[2] * q[2])
RSub(p, q) == IF IsNaN(p) \/ IsNaN(q) THEN NaN
              ELSE Rat(p[1] * q[2] - q[1] * p[2], p[2] * q[2])
RMul(p, q) == IF IsNaN(p) \/ IsNaN(q) THEN NaN
              ELSE Rat(p[1] * q[1], p[2] * q[2])
RDiv(p, q) == IF IsNaN(p) \/ IsNaN(q) \/ q[1] = 0 THEN NaN
              ELSE Rat(p[1] * q[2], p[2] * q[1])
\* Comparisons with NaN are false, as in IEEE arithmetic.
RLt(p, q) == ~IsNaN(p) /\ ~IsNaN(q) /\ p[1] * q[2] < q[1] * p[2]
RLe(p, q) == ~IsNaN(p) /\ ~IsNaN(q) /\ p[1] * q[2] <= q[1] * p[2]

RECURSIVE RSum(_)
RSum(s) == IF s = <<>> THEN RatOf(0) ELSE RAdd(Head(s), RSum(Tail(s)))

\* the sum left undivided
MeanAsSum(s) == IF s = <<>> THEN NaN ELSE RSum(s)
\* mean of a list of numbers (NaN for the empty list, NaN if any is NaN)
Mean(s) == IF s = <<>> THEN NaN ELSE RDiv(RSum(s), RatOf(Len(s)))

RECURSIVE Concat(_)
Concat(ss) == IF ss = <<>> THEN <<>> ELSE Head(ss) \o Concat(Tail(ss))

Range(s) == { s[i] : i \in DOMAIN s }

(***************************************************************************)
(* The datasets of CSV_FOLDER.  A dataset is missing (no file), unreadable *)
(* (read_csv or a use of the frame raises), or a frame: its measure        *)
(* columns and its rows, ascending in Time, each row giving a number or    *)
(* NaN for every column.                                                   *)
(***************************************************************************)
VideoIds == {"A", "B"}

\* the datasets are sampled at twice the snapping tolerance
SampleStep == 2 * tol

Missing    == [kind |-> "missing",    columns |-> {}, rows |-> <<>>]
Unreadable == [kind |-> "unreadable", columns |-> {}, rows |-> <<>>]

MeasureIndex(c) == CHOOSE i \in DOMAIN ORDERED_MEASURES : ORDERED_MEASURES[i] = c

\* A frame of n rows at Time 0, step, 2 * step, ...; column c of row j holds
\* base + j * (1 + the measure's index), or NaN in row `hole`.
FrameAt(cols, n, base, hole, step) ==
    [kind    |-> "csv",
     columns |-> cols,
     rows    |-> [j \in 1..n |->
                    [Time |-> (j - 1) * step,
                     val  |-> [c \in cols |->
                                 IF j = hole THEN NaN
                                 ELSE RatOf(base + j * (1 + MeasureIndex(c)))]]]]

Frame(cols, n, base, hole) == FrameAt(cols, n, base, hole, SampleStep)

\* Video A always has a full dataset with two measure columns.
DatasetsA ==
    { Frame({"Approach / Withdraw", "Engagement"}, MaxSamples, 20, 0) }

\* Video B: no file, a file that cannot be read, a frame without measure
\* columns, an empty frame, a shorter frame, a full frame with a missing value.
DatasetsB ==
    { Missing, Unreadable,
      Frame({}, MaxSamples, 0, 0),
      Frame({"Engagement"}, 0, 30, 0),
      Frame({"Engagement"}, MaxSamples - 1, 30, 0),
      Frame({"Engagement"}, MaxSamples, 30, 2) }

Stores == { [v \in VideoIds |-> IF v = "A" THEN a ELSE b] :
              a \in DatasetsA, b \in DatasetsB }

\* Datasets sampled more finely than the snapping tolerance (and one that is
\* not), for video A; video B has no file.
DenseSteps == {tol - 2, tol - 1, SampleStep}

DenseStores == { [v \in VideoIds |->
                    IF v = "A" THEN FrameAt({"Engagement"}, MaxSamples, 20, 0, step)
                    ELSE Missing] : step \in DenseSteps }

\* A frame with the one column Engagement and the given <<Time, value>> rows
EngagementFrame(samples) ==
    [kind    |-> "csv",
     columns |-> {"Engagement"},
     rows    |-> [j \in DOMAIN samples |->
                    [Time |-> samples[j][1],
                     val  |-> [c \in {"Engagement"} |-> samples[j][2]]]]]

\* Two datasets sampled at 0 s, 1 s and 2 s: Engagement 0.2, 0.4, 0.6 for
\* video A and 0.3, 0.5, 0.7 for video B.
ExampleStore ==
    [v \in VideoIds |->
        IF v = "A"
        THEN EngagementFrame(<< <<0, Rat(1, 5)>>, <<100, Rat(2, 5)>>, <<200, Rat(3, 5)>> >>)
        ELSE EngagementFrame(<< <<0, Rat(3, 10)>>, <<100, Rat(1, 2)>>, <<200, Rat(7, 10)>> >>)]

\* The dataset of video A alone, video B having no file.
QueryStore == [ExampleStore EXCEPT !["B"] = Missing]

(***************************************************************************)
(* Form fields.  A time field is text: float() of it gives a number or     *)
(* raises ValueError.                                                      *)
(***************************************************************************)
Num(v) == [ok |-> TRUE,  v |-> v]
Bad    == [ok |-> FALSE, v |-> 0]

TimePairs(v) ==
    IF v = "A"
    THEN { <<Num(0), Num(20)>>, <<Num(0), Num(16)>>, <<Num(5), Num(20)>>,
           <<Num(3), Num(7)>>, <<Bad, Num(20)>>, <<Num(0), Bad>> }
    ELSE { <<Num(0), Num(20)>>, <<Num(0), Num(14)>> }

\* the ad name in the header row of v's dataset, as its characters
AdNameOf(v) == <<v, "'", "s">>

Moment(v, p) ==
    [video_id |-> v, start_time |-> p[1], end_time |-> p[2], ad_name |-> AdNameOf(v)]

Moments == UNION { { Moment(v, p) : p \in TimePairs(v) } : v \in VideoIds }

MomentLists == UNION { [1..n -> Moments] : n \in 1..MaxMoments }

\* moments on the two example datasets
ExampleMoments ==
    { Moment(v, p) : v \in VideoIds,
                     p \in { <<Num(0), Num(200)>>, <<Num(0), Num(100)>>, <<Num(100), Num(200)>> } }

\* moments probing a densely sampled dataset: every start from 0 to just past
\* the second sample of the coarsest frame, every end up to one step later
ProbeTimes == 0..(SampleStep + 1)
DenseMoments ==
    { Moment("A", <<Num(st), Num(et)>>) :
        st \in ProbeTimes, et \in ProbeTimes \cup { t + SampleStep : t \in ProbeTimes } }

\* the moments a client submits against the datasets of S
MomentsOf(S) ==
    IF S = ExampleStore THEN ExampleMoments
    ELSE IF S = QueryStore THEN { Moment("A", <<Num(0), Num(200)>>) }
    ELSE IF S \in DenseStores THEN { m \in DenseMoments : m.start_time.v <= m.end_time.v }
    ELSE Moments

MomentListsOf(S) ==
    IF S = QueryStore \/ S \in DenseStores
    THEN [1..1 -> MomentsOf(S)]
    ELSE UNION { [1..n -> MomentsOf(S)] : n \in 1..MaxMoments }

\* A query is a sequence of characters; AlNum are those str.isalnum() accepts.
AlNum == {"m", "a", "n", "Z", "7"}
Chars == AlNum \cup {"_", "-", " ", "/", "."}

DefaultQuery == <<"m", "a", "n">>
Queries == UNION { [1..n -> Chars] : n \in 1..MaxQuery }

QueriesOf(S) == IF S = QueryStore THEN Queries ELSE {DefaultQuery}

\* pre_duration and post_extra, the two sliders of the line form
SliderValues == {0, 10}

(***************************************************************************)
(* Reading a dataset and cutting a segment out of it.                      *)
(***************************************************************************)
\* every file taken to exist
exists_any(ds) == TRUE
\* os.path.exists(csv_filename)
exists(ds) == ds.kind # "missing"
read_csv_ok(ds) == ds.kind = "csv"

\* only the start time checked
ParsesStartOnly(m) == m.start_time.ok
\* st = float(start_time[i]); et = float(end_time[i]) raise nothing
Parses(m) == m.start_time.ok /\ m.end_time.ok

RECURSIVE SeqMax(_)
SeqMax(s) == IF Len(s) = 1 THEN s[1]
             ELSE LET r == SeqMax(Tail(s)) IN IF s[1] > r THEN s[1] ELSE r

RECURSIVE SeqMin(_)
SeqMin(s) == IF Len(s) = 1 THEN s[1]
             ELSE LET r == SeqMin(Tail(s)) IN IF s[1] < r THEN s[1] ELSE r

Times(df) == [j \in DOMAIN df.rows |-> df.rows[j].Time]

\* df["Time"].max() and df["Time"].min(): NaN for a frame without rows
TimeMax(df) == IF df.rows = <<>> THEN NaN ELSE RatOf(SeqMax(Times(df)))
TimeMin(df) == IF df.rows = <<>> THEN NaN ELSE RatOf(SeqMin(Times(df)))

\* snapping only an end that lies beyond the last sample
SnapEndAbove(et, df) ==
    IF ~IsNaN(TimeMax(df)) /\ et >= TimeMax(df)[1] /\ et - TimeMax(df)[1] <= tol
    THEN TimeMax(df)[1] ELSE et
\* if abs(et - csv_max_time) <= 0.05: et = csv_max_time
SnapEnd(et, df) ==
    IF ~IsNaN(TimeMax(df)) /\ Abs(et - TimeMax(df)[1]) <= tol
    THEN TimeMax(df)[1] ELSE et

\* the upper bound excluded
BetweenOpen(df, lo, hi) == SelectSeq(df.rows, LAMBDA r : r.Time >= lo /\ r.Time < hi)
\* df[(df["Time"] >= lo) & (df["Time"] <= hi)]
Between(df, lo, hi) == SelectSeq(df.rows, LAMBDA r : r.Time >= lo /\ r.Time <= hi)

\* the segment of the pooled handlers: the end snapped, then the rows cut
Segment(df, st, et) == Between(df, st, SnapEnd(et, df))

\* the missing values kept
KeepNa(rows, c) == [j \in DOMAIN rows |-> rows[j].val[c]]
\* seg[col].dropna().tolist()
DropNa(rows, c) ==
    LET kept == SelectSeq(rows, LAMBDA r : ~IsNaN(r.val[c]))
    IN  [j \in DOMAIN kept |-> kept[j].val[c]]

\* the duration of the first moment instead of the shortest
pure_duration_first(moments) ==
    LET ok == SelectSeq(moments, Parses)
    IN  IF ok = <<>> THEN 0 ELSE ok[1].end_time.v - ok[1].start_time.v
\* durations.append(et - st) over the moments whose times parse; min, else 0
pure_duration_of(moments) ==
    LET ok == SelectSeq(moments, Parses)
    IN  IF ok = <<>> THEN 0
        ELSE SeqMin([i \in DOMAIN ok |-> ok[i].end_time.v - ok[i].start_time.v])

(***************************************************************************)
(* The CSV download: its file name and its cells.                          *)
(***************************************************************************)
\* c if c.isalnum() or c in "_-" else "_"
SafeChar(c) == IF c \in AlNum \/ c \in {"_", "-"} THEN c ELSE "_"

\* the unsafe characters left out instead of replaced
safe_filename_strip(query) == SelectSeq(query, LAMBDA c : c \in AlNum \/ c \in {"_", "-"})
\* "".join(c if c.isalnum() or c in "_-" else "_" for c in query)
safe_filename(query) == [i \in DOMAIN query |-> SafeChar(query[i])]

\* f"{safe_filename(query)}_results.csv"
csv_filename(query) == safe_filename(query) \o <<"_", "r", "e", "s", "u", "l", "t", "s", ".", "c", "s", "v">>

\* The cells of a CSV row before csv.writer serialises them: a literal text,
\* the query, an integer, a float.
Text(t)      == [text |-> t]
QueryCell(q) == [query |-> q]
IntCell(n)   == [int |-> n]
FloatCell(x) == [float |-> x]

\* int(x): x truncated toward zero
TruncToInt(n, d) == IF n >= 0 THEN n \div d ELSE -((-n) \div d)

(***************************************************************************)
(* update_metrics: the statistics of one segment.                          *)
(***************************************************************************)
RECURSIVE RMin(_)
RMin(s) == IF s = <<>> THEN NaN
           ELSE IF Len(s) = 1 THEN s[1]
           ELSE LET r == RMin(Tail(s)) IN IF RLt(s[1], r) THEN s[1] ELSE r

RECURSIVE RMax(_)
RMax(s) == IF s = <<>> THEN NaN
           ELSE IF Len(s) = 1 THEN s[1]
           ELSE LET r == RMax(Tail(s)) IN IF RLt(r, s[1]) THEN s[1] ELSE r

\* the square of segment[col].std(): the sample variance, NaN below two values
Variance(s) ==
    IF Len(s) < 2 THEN NaN
    ELSE LET m == Mean(s)
             sq == [i \in DOMAIN s |-> RMul(RSub(s[i], m), RSub(s[i], m))]
         IN  RDiv(RSum(sq), RatOf(Len(s) - 1))

update_metrics_page(S, video_id, start_time, end_time) ==
    IF ~exists(S[video_id])
    THEN [route |-> "update_metrics", status |-> 404, content |-> "CSV file not found."]
    ELSE IF ~read_csv_ok(S[video_id])
    THEN [route |-> "update_metrics", status |-> 500, content |-> "Error computing metrics"]
    ELSE LET df == S[video_id]
             segment == Segment(df, start_time, end_time)
             kept == SelectSeq(ORDERED_MEASURES, LAMBDA c : c \in df.columns)
         IN  IF segment = <<>>
             THEN [route |-> "update_metrics", status |-> 200,
                   content |-> "No CSV data found for these timepoints."]
             ELSE [route |-> "update_metrics", status |-> 200,
                   content |-> "metrics",
                   segment |-> segment,
                   metrics |-> [k \in DOMAIN kept |->
                                  LET vals == DropNa(segment, kept[k])
                                  IN  [col |-> kept[k], min |-> RMin(vals),
                                       max |-> RMax(vals), avg |-> Mean(vals),
                                       var |-> Variance(vals)]]]

\* the CSV Metrics block of render_clip, for one clip of a results page
render_clip_metrics(S, video_id, clip_start, clip_end) ==
    IF ~exists(S[video_id])
    THEN [route |-> "render_clip", status |-> 200, content |-> "CSV file not found."]
    ELSE IF ~read_csv_ok(S[video_id])
    THEN [route |-> "render_clip", status |-> 200, content |-> "CSV Error"]
    ELSE LET df == S[video_id]
             segment == Segment(df, clip_start, clip_end)
             kept == SelectSeq(ORDERED_MEASURES, LAMBDA c : c \in df.columns)
         IN  IF segment = <<>>
             THEN [route |-> "render_clip", status |-> 200,
                   content |-> "No CSV data found in this segment."]
             ELSE IF kept = <<>>
             THEN [route |-> "render_clip", status |-> 200,
                   content |-> "No measure columns found in CSV."]
             ELSE [route |-> "render_clip", status |-> 200,
                   content |-> "CSV Metrics",
                   segment |-> segment,
                   metrics |-> [k \in DOMAIN kept |->
                                  LET vals == DropNa(segment, kept[k])
                                  IN  [col |-> kept[k], min |-> RMin(vals),
                                       max |-> RMax(vals), avg |-> Mean(vals),
                                       var |-> Variance(vals)]]]

(***************************************************************************)
(* Pooled handlers: compute_averages and aggregated_box.  S is the store.  *)
(***************************************************************************)
NoSegment == [columns |-> {}, rows |-> <<>>]

\* One pass of the loop body shared by compute_averages and aggregated_box:
\* the segment of moment m, empty when the moment is skipped.
PooledSegment(S, m) ==
    IF ~Parses(m) THEN NoSegment
    ELSE IF ~exists(S[m.video_id]) THEN NoSegment
    ELSE IF ~read_csv_ok(S[m.video_id]) THEN NoSegment
    ELSE [columns |-> S[m.video_id].columns,
          rows    |-> Segment(S[m.video_id], m.start_time.v, m.end_time.v)]

combined_segments(S, moments) ==
    SelectSeq([i \in DOMAIN moments |-> PooledSegment(S, moments[i])],
              LAMBDA g : g.rows # <<>>)

\* combined_df[col].mean() of the concatenated segments, NaN skipped
ColumnMean(segs, col) ==
    Mean(Concat([i \in DOMAIN segs |->
                   IF col \in segs[i].columns THEN DropNa(segs[i].rows, col)
                   ELSE <<>>]))

\* average_metrics, in ORDERED_MEASURES order: <<measure, mean>> pairs
average_metrics(segs) ==
    LET cols == UNION { segs[i].columns : i \in DOMAIN segs }
        kept == SelectSeq(ORDERED_MEASURES, LAMBDA c : c \in cols)
    IN  [k \in DOMAIN kept |-> <<kept[k], ColumnMean(segs, kept[k])>>]

compute_averages_page(S, moments) ==
    LET segs == combined_segments(S, moments)
    IN  IF segs = <<>>
        THEN [route |-> "compute_averages", status |-> 400,
              content |-> "No valid CSV data found for the selected moments."]
        ELSE [route |-> "compute_averages", status |-> 200,
              content |-> "Computed Averages",
              segments |-> segs,
              average_metrics |-> average_metrics(segs),
              pure_duration |-> pure_duration_of(moments),
              hidden |-> moments]

\* each moment's values assigned to box_data[measure] instead of appended
box_data_last(S, moments) ==
    [c \in MeasureSet |->
        LET has == SelectSeq([i \in DOMAIN moments |-> PooledSegment(S, moments[i])],
                             LAMBDA g : g.rows # <<>> /\ c \in g.columns)
        IN  IF has = <<>> THEN <<>> ELSE DropNa(has[Len(has)].rows, c)]
\* box_data[measure], extended moment by moment
box_data_of(S, moments) ==
    [c \in MeasureSet |->
        Concat([i \in DOMAIN moments |->
                  LET g == PooledSegment(S, moments[i])
                  IN  IF g.rows # <<>> /\ c \in g.columns
                      THEN DropNa(g.rows, c) ELSE <<>>])]

\* the length of the first non-empty list in canonical order, 0 without one
box_first_len(bd) ==
    LET kept == SelectSeq(ORDERED_MEASURES, LAMBDA c : bd[c] # <<>>)
    IN  IF kept = <<>> THEN 0 ELSE Len(bd[kept[1]])

\* max((len(v) for v in box_data.values() if v), default=0)
box_max_len(bd) ==
    LET lens == { Len(bd[c]) : c \in MeasureSet }
    IN  CHOOSE n \in lens : \A k \in lens : k <= n

\* The rows handed to csv.writer by aggregated_box: the header, then one row
\* for every measure whose list is not empty.
box_csv(query, bd) ==
    LET max_len == box_max_len(bd)
        header  == <<Text("Query"), Text("Measure")>>
                     \o [i \in 1..max_len |-> [value_header |-> i]]
        kept    == SelectSeq(ORDERED_MEASURES, LAMBDA c : bd[c] # <<>>)
    IN  <<header>> \o
        [k \in DOMAIN kept |->
            <<QueryCell(query), Text(kept[k])>>
              \o [i \in DOMAIN bd[kept[k]] |-> FloatCell(bd[kept[k]][i])]
              \o [i \in 1..(max_len - Len(bd[kept[k]])) |-> Text("")]]

aggregated_box(S, moments, pure_duration, query) ==
    LET bd == box_data_of(S, moments)
    IN  [route |-> "aggregated_box", status |-> 200,
         content |-> "Box and Whisker Aggregated Results",
         box_data |-> bd,
         pure_duration |-> pure_duration,
         csv |-> box_csv(query, bd),
         filename |-> csv_filename(query)]

(***************************************************************************)
(* Aligned handler: aggregated_line.                                       *)
(***************************************************************************)
None == <<>>

\* np.linspace(-pre_duration, effective_post, 100)
common_time_of(pre_duration, effective_post) ==
    [k \in 1..GridPoints |->
        Rat(-pre_duration * (GridPoints - 1) + (k - 1) * (effective_post + pre_duration),
            GridPoints - 1)]

\* the check without its tolerance
InsufficientDataNoTol(df, st, pre_duration, effective_post) ==
    \/ RLt(RatOf(st - pre_duration), TimeMin(df))
    \/ RLt(TimeMax(df), RatOf(st + effective_post))
\* the check of the pre side alone
InsufficientDataPreOnly(df, st, pre_duration, effective_post) ==
    RLt(RatOf(st - pre_duration), RSub(TimeMin(df), RatOf(tol)))
\* (st - pre_duration) < (available_start - tol) or
\* (st + effective_post) > (available_end + tol)
InsufficientData(df, st, pre_duration, effective_post) ==
    \/ RLt(RatOf(st - pre_duration), RSub(TimeMin(df), RatOf(tol)))
    \/ RLt(RAdd(TimeMax(df), RatOf(tol)), RatOf(st + effective_post))

\* What the loop body does with moment m
LineFate(S, m, pre_duration, post_extra, effective_post) ==
    IF ~Parses(m) THEN "unparsed"
    ELSE IF ~exists(S[m.video_id]) THEN "notfound"
    ELSE IF ~read_csv_ok(S[m.video_id]) THEN "failed"
    ELSE IF /\ (pre_duration > 0 \/ post_extra > 0)
            /\ InsufficientData(S[m.video_id], m.start_time.v, pre_duration, effective_post)
         THEN "excluded"
    ELSE "included"

\* seg, with its RelativeTime column
LineSegment(df, st, pre_duration, effective_post) ==
    LET rows == Between(df, st - pre_duration, st + effective_post)
    IN  [columns |-> df.columns,
         rows    |-> [j \in DOMAIN rows |->
                        [RelativeTime |-> rows[j].Time - st, val |-> rows[j].val]]]

\* the value of the last sample at or before x, the first one before them all
interp_hold(x, times, values) ==
    LET before == { j \in 1..Len(times) : times[j] * x[2] <= x[1] }
    IN  IF before = {} THEN values[1]
        ELSE values[CHOOSE j \in before : \A k \in before : k <= j]

\* np.interp(x, times, values) at one point x, for non-empty ascending times:
\* slope * (x - times[j]) + values[j] with slope the rise over the run
interp(x, times, values) ==
    LET n == Len(times)
    IN  IF x[1] < times[1] * x[2] THEN values[1]
        ELSE IF times[n] * x[2] <= x[1] THEN values[n]
        ELSE LET j == CHOOSE j \in 1..(n - 1) :
                        times[j] * x[2] <= x[1] /\ x[1] < times[j + 1] * x[2]
                 lo == values[j]
                 hi == values[j + 1]
                 run == times[j + 1] - times[j]
             IN  IF x[1] = times[j] * x[2] THEN lo
                 ELSE IF IsNaN(lo) \/ IsNaN(hi) THEN NaN
                 ELSE Rat((hi[1] * lo[2] - lo[1] * hi[2]) * (x[1] - times[j] * x[2])
                            + lo[1] * hi[2] * run * x[2],
                          lo[2] * hi[2] * run * x[2])

\* the rows without a cell for a measure that has no curve
line_csv_sparse(query, common_time, averaged) ==
    LET header == <<Text("Query"), Text("Time(ms)")>>
                    \o [k \in DOMAIN ORDERED_MEASURES |-> Text(ORDERED_MEASURES[k])]
        drawn == SelectSeq(ORDERED_MEASURES, LAMBDA m : averaged[m] # None)
    IN  <<header>> \o
        [i \in DOMAIN common_time |->
            <<QueryCell(query),
              IntCell(TruncToInt(common_time[i][1] * 10, common_time[i][2]))>>
              \o [k \in DOMAIN drawn |-> FloatCell(averaged[drawn[k]][i])]]

\* The rows handed to csv.writer by aggregated_line: the header, then one row
\* for every point of common_time.  t_ms = int(common_time[i] * 1000), the
\* grid being in hundredths of a second here.  The download of a line page
\* is line_csv of the page's query, grid and curves.
line_csv(query, common_time, averaged) ==
    LET header == <<Text("Query"), Text("Time(ms)")>>
                    \o [k \in DOMAIN ORDERED_MEASURES |-> Text(ORDERED_MEASURES[k])]
    IN  <<header>> \o
        [i \in DOMAIN common_time |->
            <<QueryCell(query),
              IntCell(TruncToInt(common_time[i][1] * 10, common_time[i][2]))>>
              \o [k \in DOMAIN ORDERED_MEASURES |->
                    IF averaged[ORDERED_MEASURES[k]] # None
                    THEN FloatCell(averaged[ORDERED_MEASURES[k]][i])
                    ELSE Text("")]]

aggregated_line(S, moments, pre_duration, post_extra, pure_duration, query) ==
    LET effective_post == pure_duration + post_extra
        common_time == common_time_of(pre_duration, effective_post)
        fate == [i \in DOMAIN moments |->
                   LineFate(S, moments[i], pre_duration, post_extra, effective_post)]
        fateSeq == [i \in DOMAIN moments |-> <<i, fate[i]>>]
        excl == SelectSeq(fateSeq, LAMBDA p : p[2] \in {"excluded", "failed"})
        incl == SelectSeq(fateSeq, LAMBDA p : p[2] = "included")
        excluded_names == [k \in DOMAIN excl |-> moments[excl[k][1]].ad_name]
        included_events ==
            [k \in DOMAIN incl |->
                LineSegment(S[moments[incl[k][1]].video_id],
                            moments[incl[k][1]].start_time.v,
                            pre_duration, effective_post)]
        \* np.interp raises ValueError on an empty array of sample points
        raises == \E k \in DOMAIN included_events :
                     /\ included_events[k].rows = <<>>
                     /\ included_events[k].columns \cap MeasureSet # {}
        interp_data(c) ==
            LET has == SelectSeq(included_events, LAMBDA g : c \in g.columns)
            IN  [k \in DOMAIN has |->
                   LET times  == [j \in DOMAIN has[k].rows |-> has[k].rows[j].RelativeTime]
                       values == [j \in DOMAIN has[k].rows |-> has[k].rows[j].val[c]]
                   IN  [p \in 1..GridPoints |-> interp(common_time[p], times, values)]]
        averaged(c) ==
            LET d == interp_data(c)
            IN  IF d = <<>> THEN None
                ELSE [p \in 1..GridPoints |-> Mean([k \in DOMAIN d |-> d[k][p]])]
        \* the handler's locals when it returns, whatever the outcome
        locals == [fate |-> fate, excluded_names |-> excluded_names,
                   pure_duration |-> pure_duration, effective_post |-> effective_post,
                   common_time |-> common_time]
    IN  IF included_events = <<>>
        THEN [route |-> "aggregated_line", status |-> 400,
              content |-> "No valid CSV data for graphing after exclusions.",
              locals |-> locals]
        ELSE IF raises
        THEN [route |-> "aggregated_line", status |-> 500,
              content |-> "ValueError: array of sample points is empty",
              locals |-> locals]
        ELSE [route |-> "aggregated_line", status |-> 200,
              content |-> "Line Graph Aggregated Results",
              locals |-> locals,
              excluded_names |-> excluded_names,
              averaged |-> [c \in MeasureSet |-> averaged(c)],
              filename |-> csv_filename(query)]

(***************************************************************************)
(* The routes.                                                             *)
(***************************************************************************)
NoRequest  == [route |-> "none"]
NoResponse == [route |-> "none", status |-> 0]

\* A sessionStorage item: absent, or holding a value.
NoItem  == [present |-> FALSE, value |-> <<>>]
Item(v) == [present |-> TRUE, value |-> v]

\* The worker threads that run the handlers, and a worker that runs nothing.
Threads == {1, 2}
Idle == [handler |-> "none", pc |-> "idle"]

\* The process has just started and a browser tab has just been opened: no
\* request in flight, cache = {}, an empty sessionStorage, no page, no open
\* figure, idle workers.
Started ==
    /\ request = NoRequest
    /\ response = NoResponse
    /\ cache = <<>>
    /\ sessionStorage = [lastQuery |-> NoItem, selectedClips |-> NoItem]
    /\ page = [kind |-> "blank"]
    /\ pyplot = <<>>
    /\ calls = [t \in Threads |-> Idle]

Init == store \in Stores /\ Started

\* One clip of a /search results page is rendered.
render_clip ==
    /\ request = NoRequest
    /\ \E m \in { x \in MomentsOf(store) : Parses(x) } :
         /\ request' = [route |-> "render_clip", video_id |-> m.video_id,
                        start_time |-> m.start_time.v, end_time |-> m.end_time.v]
         /\ response' = render_clip_metrics(store, m.video_id, m.start_time.v, m.end_time.v)
    /\ UNCHANGED <<store, cache, sessionStorage, page, pyplot, calls>>

\* GET /update_metrics
update_metrics ==
    /\ request = NoRequest
    /\ \E m \in { x \in MomentsOf(store) : Parses(x) } :
         /\ request' = [route |-> "update_metrics", video_id |-> m.video_id,
                        start_time |-> m.start_time.v, end_time |-> m.end_time.v]
         /\ response' = update_metrics_page(store, m.video_id, m.start_time.v, m.end_time.v)
    /\ UNCHANGED <<store, cache, sessionStorage, page, pyplot, calls>>

\* POST /compute_averages
compute_averages ==
    /\ request = NoRequest
    /\ \E moments \in MomentListsOf(store), query \in QueriesOf(store) :
         /\ request' = [route |-> "compute_averages", moments |-> moments,
                        query |-> query]
         /\ response' = compute_averages_page(store, moments)
    /\ UNCHANGED <<store, cache, sessionStorage, page, pyplot, calls>>

\* POST /aggregated_graphs
aggregated_graphs ==
    /\ request = NoRequest
    /\ \E graph_type \in {"line", "box"}, moments \in MomentListsOf(store),
          pre_duration \in SliderValues, post_extra \in SliderValues,
          query \in QueriesOf(store) :
         /\ graph_type = "box" => pre_duration = 0 /\ post_extra = 0
         /\ request' = [route |-> "aggregated_graphs", graph_type |-> graph_type,
                        moments |-> moments, pre_duration |-> pre_duration,
                        post_extra |-> post_extra, query |-> query]
         /\ response' =
              IF graph_type = "line"
              THEN aggregated_line(store, moments, pre_duration, post_extra,
                                   pure_duration_of(moments), query)
              ELSE aggregated_box(store, moments, pure_duration_of(moments), query)
    /\ UNCHANGED <<store, cache, sessionStorage, page, pyplot, calls>>

\* POST /aggregated_results
aggregated_results ==
    /\ request = NoRequest
    /\ \E moments \in MomentListsOf(store),
          pre_duration \in SliderValues, post_extra \in SliderValues,
          query \in QueriesOf(store) :
         /\ request' = [route |-> "aggregated_results", graph_type |-> "line",
                        moments |-> moments, pre_duration |-> pre_duration,
                        post_extra |-> post_extra, query |-> query]
         /\ response' = aggregated_line(store, moments, pre_duration, post_extra,
                                        pure_duration_of(moments), query)
    /\ UNCHANGED <<store, cache, sessionStorage, page, pyplot, calls>>

\* The client takes the response; the server is ready for the next request.
Deliver ==
    /\ request # NoRequest
    /\ request' = NoRequest
    /\ response' = NoResponse
    /\ UNCHANGED <<store, cache, sessionStorage, page, pyplot, calls>>

Next == render_clip \/ update_metrics \/ compute_averages \/ aggregated_graphs \/ aggregated_results \/ Deliver

Spec == Init /\ [][Next]_vars

\* The same routes against densely sampled datasets, against the two example
\* datasets, and against one dataset with every query.
InitDense   == store \in DenseStores /\ Started
InitExample == store = ExampleStore /\ Started
InitQuery   == store = QueryStore /\ Started

SpecDense   == InitDense /\ [][Next]_vars
SpecExample == InitExample /\ [][Next]_vars
SpecQuery   == InitQuery /\ [][Next]_vars

(***************************************************************************)
(* Handlers running concurrently on the worker threads.  The steps of a    *)
(* call that touch pyplot are taken one at a time; everything else a call  *)
(* does is on its own locals.  pyplot keeps the open figures in order of   *)
(* activation; the last one is the current figure.  A worker has at most   *)
(* one figure open, so a figure is known by its owner.                     *)
(***************************************************************************)
LineFigures == 6

ConcurrentStore ==
    [v \in VideoIds |->
        IF v = "A" THEN Frame({"Approach / Withdraw", "Engagement"}, MaxSamples, 20, 0)
        ELSE Frame({"Engagement"}, MaxSamples, 30, 2)]

CallMoments ==
    { << Moment("A", <<Num(0), Num(20)>>) >>,
      << Moment("B", <<Num(0), Num(14)>>), Moment("A", <<Num(5), Num(20)>>) >> }

Handlers == {"compute_averages", "aggregated_box", "aggregated_line"}

\* gcf(): the current figure
CurrentFigure == pyplot[Len(pyplot)]

\* A worker takes a request and runs the handler up to its first pyplot call.
call_begin(t) ==
    /\ calls[t] = Idle
    /\ \E h \in Handlers, moments \in CallMoments :
         calls' = [calls EXCEPT ![t] =
                     [handler |-> h, moments |-> moments, images |-> <<>>,
                      pc |-> IF h = "compute_averages" THEN "return" ELSE "subplots"]]
    /\ UNCHANGED <<store, request, response, cache, sessionStorage, page, pyplot>>

\* fig, axes = plt.subplots(...): a new figure, which becomes the current one
plt_subplots(t) ==
    /\ calls[t].pc = "subplots"
    /\ pyplot' = Append(pyplot, [owner |-> t, tight |-> FALSE])
    /\ calls' = [calls EXCEPT ![t].pc =
                    IF calls[t].handler = "aggregated_box" THEN "tight_layout" ELSE "savefig"]
    /\ UNCHANGED <<store, request, response, cache, sessionStorage, page>>

\* plt.tight_layout(): the layout of the current figure is tightened
plt_tight_layout(t) ==
    /\ calls[t].pc = "tight_layout"
    /\ pyplot' = [pyplot EXCEPT ![Len(pyplot)].tight = TRUE]
    /\ calls' = [calls EXCEPT ![t].pc = "savefig"]
    /\ UNCHANGED <<store, request, response, cache, sessionStorage, page>>

\* fig.savefig(buf): the worker's own figure is rendered as it is now
fig_savefig(t) ==
    /\ calls[t].pc = "savefig"
    /\ \E k \in DOMAIN pyplot :
         /\ pyplot[k].owner = t
         /\ calls' = [calls EXCEPT ![t].images = Append(@, [tight |-> pyplot[k].tight]),
                                   ![t].pc = "close"]
    /\ UNCHANGED <<store, request, response, cache, sessionStorage, page, pyplot>>

\* plt.close(fig): the worker's figure leaves the registry
plt_close(t) ==
    /\ calls[t].pc = "close"
    /\ pyplot' = SelectSeq(pyplot, LAMBDA f : f.owner # t)
    /\ calls' = [calls EXCEPT ![t].pc =
                    IF calls[t].handler = "aggregated_line" /\ Len(calls[t].images) < LineFigures
                    THEN "subplots" ELSE "return"]
    /\ UNCHANGED <<store, request, response, cache, sessionStorage, page>>

\* return HTMLResponse(content=html): the page, with the images rendered
call_return(t) ==
    /\ calls[t].pc = "return"
    /\ calls' = [calls EXCEPT ![t].pc = "done"]
    /\ UNCHANGED <<store, request, response, cache, sessionStorage, page, pyplot>>

\* The client has the page; the worker is free again.
call_end(t) ==
    /\ calls[t].pc = "done"
    /\ calls' = [calls EXCEPT ![t] = Idle]
    /\ UNCHANGED <<store, request, response, cache, sessionStorage, page, pyplot>>

InitConcurrent == store = ConcurrentStore /\ Started

NextConcurrent ==
    \E t \in Threads :
      \/ call_begin(t)
      \/ plt_subplots(t)
      \/ plt_tight_layout(t)
      \/ fig_savefig(t)
      \/ plt_close(t)
      \/ call_return(t)
      \/ call_end(t)

SpecConcurrent == InitConcurrent /\ [][NextConcurrent]_vars

(***************************************************************************)
(* The search results page and its cart.  One browser tab: the page it     *)
(* shows and its sessionStorage.  A checkbox value is kept as the tuple of *)
(* the five fields that render_clip joins.                                 *)
(***************************************************************************)
per_page == 50

SearchQueries == {DefaultQuery, <<"7">>}
Filters == {"all", "high"}
Pages == {1, 2}

get_computed_confidence(score) ==
    IF score >= 80 THEN "high" ELSE IF score >= 75 THEN "medium" ELSE "low"

Clip(v, k, score, thumbnail_url) ==
    [video_id |-> v, start |-> k, end |-> k + 1, score |-> score,
     thumbnail_url |-> thumbnail_url]

\* What the search provider holds for a query, highest score first: one clip
\* more than a page for the default query, three clips for any other, one of
\* them with a '|' in its thumbnail URL.
ProviderClips(query) ==
    IF query = DefaultQuery
    THEN [k \in 1..(per_page + 1) |->
            Clip(IF k % 2 = 1 THEN "A" ELSE "B", k, 100 - k, <<"t">>)]
    ELSE << Clip("A", 1, 85, <<"t">>), Clip("B", 3, 78, <<"t", "|", "u">>),
            Clip("B", 7, 60, <<"t">>) >>

\* client.search.query and by_page_token hand the clips out page by page
page_limit == 50

ProviderPages(query) == (Len(ProviderClips(query)) + page_limit - 1) \div page_limit

\* gather_all_clips when `fetched` pages have come back before a provider
\* call failed, or all of them: the clips of those pages, and the total the
\* provider reports with its first page.  Called with fetched >= 1: when the
\* first call fails the handler answers 500.
gather_all_clips(query, fetched) ==
    LET all == ProviderClips(query)
        got == IF fetched * page_limit < Len(all) THEN fetched * page_limit ELSE Len(all)
    IN  [clips |-> SubSeq(all, 1, got), total_hits |-> Len(all)]

paginate(items, p, size) ==
    LET start == (p - 1) * size
        end == IF start + size < Len(items) THEN start + size ELSE Len(items)
    IN  [results |-> IF start < end THEN SubSeq(items, start + 1, end) ELSE <<>>,
         total |-> Len(items)]

\* render_clip: the ad name is the dataset's header name, "Unknown" without one
clip_ad_name(S, video_id) ==
    IF exists(S[video_id]) /\ read_csv_ok(S[video_id]) THEN AdNameOf(video_id)
    ELSE <<"U", "n", "k", "n", "o", "w", "n">>

\* str(n) for a natural number below 100
Digits(n) ==
    LET digit == <<"0", "1", "2", "3", "4", "5", "6", "7", "8", "9">>
    IN  IF n < 10 THEN <<digit[n + 1]>> ELSE <<digit[(n \div 10) + 1], digit[(n % 10) + 1]>>

\* f"{x}" for a float x that is a whole number of seconds
FloatStr(n) == Digits(n) \o <<".", "0">>

\* f"{video_id}|{clip_start}|{clip_end}|{thumbnail_url}|{ad_name}"
checkbox_value(S, clip) ==
    <<clip.video_id>> \o <<"|">> \o FloatStr(clip.start) \o <<"|">> \o FloatStr(clip.end)
      \o <<"|">> \o clip.thumbnail_url \o <<"|">> \o clip_ad_name(S, clip.video_id)

\* What the browser takes as the value of value='...': the text up to the
\* first apostrophe.
attribute_value(text) ==
    LET quotes == { i \in DOMAIN text : text[i] = "'" }
    IN  IF quotes = {} THEN text
        ELSE SubSeq(text, 1, (CHOOSE i \in quotes : \A j \in quotes : i <= j) - 1)

\* clip_str.split("|")
split(clip_str) ==
    LET bars == SelectSeq([i \in DOMAIN clip_str |-> i], LAMBDA i : clip_str[i] = "|")
        cuts == <<0>> \o bars \o <<Len(clip_str) + 1>>
    IN  [k \in 1..(Len(bars) + 1) |-> SubSeq(clip_str, cuts[k] + 1, cuts[k + 1] - 1)]

\* the checkbox values of a results page, in page order
page_values(S, entry, conf_filter, p) ==
    LET filtered == IF conf_filter = "all" THEN entry.clips
                    ELSE SelectSeq(entry.clips,
                                   LAMBDA c : get_computed_confidence(c.score) = conf_filter)
        page_results == paginate(filtered, p, per_page).results
    IN  [k \in DOMAIN page_results |-> attribute_value(checkbox_value(S, page_results[k]))]

getStoredSelection(ss) ==
    IF ss.selectedClips.present THEN ss.selectedClips.value ELSE <<>>

setStoredSelection(ss, arr) == [ss EXCEPT !.selectedClips = Item(arr)]

removeItem(ss) == [ss EXCEPT !.selectedClips = NoItem]

checkQueryChange_always(ss, currentQuery) ==
    [lastQuery |-> Item(currentQuery), selectedClips |-> NoItem]

checkQueryChange(ss, currentQuery) ==
    [lastQuery |-> Item(currentQuery),
     selectedClips |-> IF ss.lastQuery # Item(currentQuery) THEN NoItem ELSE ss.selectedClips]

\* stored.splice(stored.indexOf(value), 1)
splice(stored, value) ==
    LET index == CHOOSE i \in DOMAIN stored :
                     stored[i] = value /\ \A j \in 1..(i - 1) : stored[j] # value
    IN  SubSeq(stored, 1, index - 1) \o SubSeq(stored, index + 1, Len(stored))

\* stored.push(v) for every value of vs, held already or not
push_all(stored, vs) == stored \o vs

\* stored.push(v), in order, for every value of vs that stored does not hold yet
push_missing(stored, vs) ==
    LET fresh == SelectSeq([i \in DOMAIN vs |-> i],
                           LAMBDA i : /\ vs[i] \notin Range(stored)
                                      /\ \A j \in 1..(i - 1) : vs[j] # vs[i])
    IN  stored \o [k \in DOMAIN fresh |-> vs[fresh[k]]]

\* the checkboxes the user is seen to click and the cart entries they remove
Watched(S) ==
    { attribute_value(checkbox_value(S, ProviderClips(DefaultQuery)[k])) : k \in {1, per_page + 1} }

\* GET /search when the provider, if asked, gets `fetched` pages out before
\* one of its calls fails; then the page's onload once the browser has it
search_results_with(query, conf_filter, p, fetched) ==
    /\ IF query \notin DOMAIN cache /\ fetched = 0
       THEN /\ page' = [kind |-> "error", status |-> 500]
            /\ UNCHANGED <<cache, sessionStorage>>
       ELSE /\ cache' = IF query \in DOMAIN cache THEN cache
                        ELSE [q \in DOMAIN cache \cup {query} |->
                                IF q = query THEN gather_all_clips(query, fetched)
                                ELSE cache[q]]
            /\ sessionStorage' = checkQueryChange(sessionStorage, query)
            /\ LET values == page_values(store, cache'[query], conf_filter, p)
                   stored == getStoredSelection(sessionStorage')
               IN  page' = [kind |-> "search", query |-> query,
                            conf_filter |-> conf_filter, page |-> p,
                            values |-> values,
                            checked |-> Range(values) \cap Range(stored),
                            cartCount |-> Len(stored)]
    /\ UNCHANGED <<store, request, response, pyplot, calls>>

\* GET /search
search_results(query, conf_filter, p) ==
    \E fetched \in 0..ProviderPages(query) :
        search_results_with(query, conf_filter, p, fetched)

\* a checkbox of the page is clicked
toggleHighlight(value) ==
    /\ page.kind = "search"
    /\ value \in Range(page.values)
    /\ LET stored == getStoredSelection(sessionStorage)
           nowChecked == value \notin page.checked
           after == IF nowChecked
                    THEN IF value \notin Range(stored) THEN Append(stored, value) ELSE stored
                    ELSE IF value \in Range(stored) THEN splice(stored, value) ELSE stored
       IN  /\ sessionStorage' = IF after # stored THEN setStoredSelection(sessionStorage, after)
                                ELSE sessionStorage
           /\ page' = [page EXCEPT !.checked = IF nowChecked THEN @ \cup {value} ELSE @ \ {value},
                                   !.cartCount = Len(after)]
    /\ UNCHANGED <<store, request, response, cache, pyplot, calls>>

\* the Remove button of a cart entry
removeCartItem(value) ==
    /\ page.kind = "search"
    /\ value \in Range(getStoredSelection(sessionStorage))
    /\ LET after == splice(getStoredSelection(sessionStorage), value)
       IN  /\ sessionStorage' = setStoredSelection(sessionStorage, after)
           /\ page' = [page EXCEPT !.cartCount = Len(after)]
    /\ UNCHANGED <<store, request, response, cache, pyplot, calls>>

emptyCart ==
    /\ page.kind = "search"
    /\ sessionStorage' = removeItem(sessionStorage)
    /\ page' = [page EXCEPT !.cartCount = 0]
    /\ UNCHANGED <<store, request, response, cache, pyplot, calls>>

selectAll ==
    /\ page.kind = "search"
    /\ LET after == push_missing(getStoredSelection(sessionStorage), page.values)
       IN  /\ sessionStorage' = setStoredSelection(sessionStorage, after)
           /\ page' = [page EXCEPT !.checked = Range(page.values), !.cartCount = Len(after)]
    /\ UNCHANGED <<store, request, response, cache, pyplot, calls>>

deselectAll ==
    /\ page.kind = "search"
    /\ sessionStorage' = removeItem(sessionStorage)
    /\ page' = [page EXCEPT !.checked = {}, !.cartCount = 0]
    /\ UNCHANGED <<store, request, response, cache, pyplot, calls>>

\* The form field cartSelections: the JSON text of an array, or a text that
\* is not JSON.
Json(arr) == [json |-> TRUE, value |-> arr]
NotJson == [json |-> FALSE, value |-> <<>>]

\* json.loads(cartSelections), [] when it raises
json_loads(cartSelections) == IF cartSelections.json THEN cartSelections.value ELSE <<>>

\* the moments of the Select Timepoints page: one for every selection that
\* splits into five parts
moments_of(selections) ==
    LET parts == [i \in DOMAIN selections |-> split(selections[i])]
        kept == SelectSeq(parts, LAMBDA x : Len(x) = 5)
    IN  [k \in DOMAIN kept |->
           [video_id |-> kept[k][1], default_start |-> kept[k][2],
            default_end |-> kept[k][3], thumbnail_url |-> kept[k][4],
            ad_name |-> kept[k][5]]]

\* POST /select_timepoints with the form field cartSelections; the browser
\* then shows the answer and runs its scripts.
select_timepoints_of(cartSelections) ==
    /\ page.kind = "search"
    /\ LET selections == json_loads(cartSelections)
       IN  IF selections = <<>>
           THEN /\ page' = [kind |-> "error", status |-> 400,
                            content |-> "No moments selected."]
                /\ UNCHANGED sessionStorage
           ELSE /\ page' = [kind |-> "timepoints", query |-> page.query,
                            moments |-> moments_of(selections)]
                /\ sessionStorage' = removeItem(sessionStorage)
    /\ UNCHANGED <<store, request, response, cache, pyplot, calls>>

\* The cart form is submitted with JSON.stringify(getStoredSelection()), or a
\* client posts a cartSelections that is not JSON.
select_timepoints ==
    \E cartSelections \in {Json(getStoredSelection(sessionStorage)), NotJson} :
        select_timepoints_of(cartSelections)

InitCart == store = QueryStore /\ Started

NextCart ==
    \/ \E query \in SearchQueries, conf_filter \in Filters, p \in Pages :
         search_results(query, conf_filter, p)
    \/ \E value \in Watched(store) : toggleHighlight(value)
    \/ \E value \in Watched(store) : removeCartItem(value)
    \/ emptyCart
    \/ selectAll
    \/ deselectAll
    \/ select_timepoints

SpecCart == InitCart /\ [][NextCart]_vars

(***************************************************************************)
(* Properties.                                                             *)
(***************************************************************************)
MaxExtension == 3

IsAvg  == request.route = "compute_averages"
IsBox  == request.route = "aggregated_graphs" /\ request.graph_type = "box"
IsLine == /\ request.route \in {"aggregated_graphs", "aggregated_results"}
          /\ request.graph_type = "line"
Sliders == IsLine /\ (request.pre_duration > 0 \/ request.post_extra > 0)

ReqEffectivePost == pure_duration_of(request.moments) + request.post_extra

Readable(m) == Parses(m) /\ store[m.video_id].kind = "csv"

RemoveAt(s, i) == [k \in 1..(Len(s) - 1) |-> IF k < i THEN s[k] ELSE s[k + 1]]

\* the outcome of a line response: its status and, when a page, its curves
SameLineOutcome(r1, r2) ==
    /\ r1.status = r2.status
    /\ r1.status = 200 => r1.averaged = r2.averaged /\ r1.excluded_names = r2.excluded_names

\* The requested window [start - pre, start + effective_post] of m reaches
\* more than tol outside [available_start, available_end].
OutsideAvailable(df, m) ==
    /\ df.rows # <<>>
    /\ \/ m.start_time.v - request.pre_duration < SeqMin(Times(df)) - tol
       \/ m.start_time.v + ReqEffectivePost > SeqMax(Times(df)) + tol

\* C1: in line aggregation with pre_duration > 0 or post_extra > 0, a moment
\* whose dataset was read is excluded exactly when its requested window
\* reaches more than 0.05 outside the available data; an excluded moment has
\* its label in the excluded list and contributes no values (the outcome is
\* that of the request without it), and every moment that is not excluded
\* has its requested window inside the available data, up to the tolerance.
C1_ExclusionExact ==
    Sliders =>
      \A i \in DOMAIN request.moments :
        LET m  == request.moments[i]
            df == store[m.video_id]
        IN  Readable(m) =>
              /\ response.locals.fate[i] = "excluded" <=> OutsideAvailable(df, m)
              /\ response.locals.fate[i] = "included" <=> ~OutsideAvailable(df, m)
              /\ response.locals.fate[i] = "excluded" =>
                   /\ m.ad_name \in Range(response.locals.excluded_names)
                   /\ LET without == aggregated_line(store, RemoveAt(request.moments, i),
                                        request.pre_duration, request.post_extra,
                                        pure_duration_of(request.moments), request.query)
                      IN  /\ response.status = without.status
                          /\ response.status = 200 =>
                               response.averaged = without.averaged

C1_Witness ==
    /\ Sliders
    /\ response.status = 200
    /\ \E i, j \in DOMAIN request.moments :
         /\ response.locals.fate[i] = "excluded"
         /\ response.locals.fate[j] = "included"
         /\ OutsideAvailable(store[request.moments[i].video_id], request.moments[i])

\* the series of df ends before start + effective_post - 0.05
EndsBefore(df, m) ==
    /\ df.rows # <<>>
    /\ SeqMax(Times(df)) < m.start_time.v + ReqEffectivePost - tol

\* df with k more samples after its last one
Extended(df, k) ==
    [df EXCEPT !.rows = df.rows \o
        [j \in 1..k |-> [Time |-> SeqMax(Times(df)) + j * SampleStep,
                         val  |-> df.rows[Len(df.rows)].val]]]

Covers(df, m) ==
    /\ df.rows # <<>>
    /\ m.start_time.v - request.pre_duration >= SeqMin(Times(df)) - tol
    /\ m.start_time.v + ReqEffectivePost <= SeqMax(Times(df)) + tol

FateWith(df, m) ==
    LineFate([store EXCEPT ![m.video_id] = df], m, request.pre_duration,
             request.post_extra, ReqEffectivePost)

\* C2 as stated: for every pre_duration >= 0 and post_extra >= 0 a moment
\* whose series ends before start + effective_post - 0.05 is excluded.
C2_AnySliders ==
    IsLine =>
      \A i \in DOMAIN request.moments :
        LET m == request.moments[i]
        IN  (Readable(m) /\ EndsBefore(store[m.video_id], m)) =>
               response.locals.fate[i] = "excluded"

\* C2, amended: when pre_duration > 0 or post_extra > 0, a moment whose
\* series ends before start + effective_post - 0.05 is excluded; the same
\* moment is included once its series is extended to cover the requested
\* window, and a moment that is included stays included under any extension.
C2_ExcludedUntilCovered ==
    Sliders =>
      \A i \in DOMAIN request.moments :
        LET m  == request.moments[i]
            df == store[m.video_id]
        IN  (Readable(m) /\ df.rows # <<>>) =>
              /\ EndsBefore(df, m) => response.locals.fate[i] = "excluded"
              /\ \A k \in 0..MaxExtension :
                   /\ Covers(Extended(df, k), m) => FateWith(Extended(df, k), m) = "included"
                   /\ response.locals.fate[i] = "included" =>
                        FateWith(Extended(df, k), m) = "included"

C2_Witness ==
    /\ Sliders
    /\ \E i \in DOMAIN request.moments :
         LET m  == request.moments[i]
             df == store[m.video_id]
         IN  /\ Readable(m)
             /\ EndsBefore(df, m)
             /\ response.locals.fate[i] = "excluded"
             /\ \E k \in 1..MaxExtension :
                  /\ Covers(Extended(df, k), m)
                  /\ FateWith(Extended(df, k), m) = "included"

\* moment m yields no contribution: its times do not parse, its dataset is
\* missing or unreadable, or its window holds no samples
NoSamples(m) ==
    \/ ~Readable(m)
    \/ IF IsLine
       THEN Between(store[m.video_id], m.start_time.v - request.pre_duration,
                    m.start_time.v + ReqEffectivePost) = <<>>
       ELSE Segment(store[m.video_id], m.start_time.v, m.end_time.v) = <<>>

\* C3: when every moment of a request fails to yield a contribution, the
\* request ends in the 'no valid data' error, in compute_averages,
\* aggregated_box and aggregated_line.
C3_NoDataIsTerminal ==
    (IsAvg \/ IsBox \/ IsLine) =>
      ((\A i \in DOMAIN request.moments : NoSamples(request.moments[i])) =>
          response.status = 400)

\* C4: a moment whose window holds no samples is no error: the call
\* completes and its outcome is that of the request without the moment.
C4_EmptySegmentIsNoError ==
    (IsBox \/ IsLine) =>
      \A i \in DOMAIN request.moments :
        LET m == request.moments[i]
        IN  (Readable(m) /\ NoSamples(m)) =>
              /\ response.status # 500
              /\ IsBox => response.box_data =
                            box_data_of(store, RemoveAt(request.moments, i))
              /\ IsLine => SameLineOutcome(response,
                              aggregated_line(store, RemoveAt(request.moments, i),
                                  request.pre_duration, request.post_extra,
                                  pure_duration_of(request.moments), request.query))

\* the end of moment m lies within tol of the last sample of its dataset
NearMax(df, et) == df.kind = "csv" /\ df.rows # <<>> /\ Abs(et - SeqMax(Times(df))) <= tol

EndAtMax(m) ==
    IF m.start_time.ok /\ m.end_time.ok /\ NearMax(store[m.video_id], m.end_time.v)
    THEN [m EXCEPT !.end_time = Num(SeqMax(Times(store[m.video_id])))]
    ELSE m

EndsAtMax(moments) == [i \in DOMAIN moments |-> EndAtMax(moments[i])]

\* the rows of df with start <= Time <= the last sample's time
UpToMax(df, st) ==
    SelectSeq(df.rows, LAMBDA r : st <= r.Time /\ r.Time <= SeqMax(Times(df)))

\* C5: whenever |end - series.max_time| <= 0.05 the segment is the one cut
\* with end = series.max_time exactly (so end = max_time + 0.04 and
\* end = max_time - 0.04 both give the segment of end = max_time), in
\* render_clip, update_metrics, compute_averages and aggregated_box.
C5_EndSnapping ==
    /\ IsAvg =>
         LET at == compute_averages_page(store, EndsAtMax(request.moments))
         IN  /\ response.status = at.status
             /\ response.status = 200 =>
                  /\ response.segments = at.segments
                  /\ response.average_metrics = at.average_metrics
    /\ IsBox => response.box_data = box_data_of(store, EndsAtMax(request.moments))
    /\ (request.route \in {"update_metrics", "render_clip"}
          /\ NearMax(store[request.video_id], request.end_time)) =>
         LET df == store[request.video_id]
             mx == SeqMax(Times(df))
         IN  /\ request.route = "update_metrics" =>
                  response = update_metrics_page(store, request.video_id,
                                                 request.start_time, mx)
             /\ request.route = "render_clip" =>
                  response = render_clip_metrics(store, request.video_id,
                                                 request.start_time, mx)
             /\ response.content \in {"metrics", "CSV Metrics"} =>
                  response.segment = UpToMax(df, request.start_time)

C5_Witness ==
    /\ IsBox
    /\ response.box_data["Engagement"] # <<>>
    /\ \E i, j \in DOMAIN request.moments :
         LET mi == request.moments[i]
             mj == request.moments[j]
         IN  /\ Readable(mi) /\ Readable(mj)
             /\ store[mi.video_id].rows # <<>> /\ store[mj.video_id].rows # <<>>
             /\ mi.end_time.v = SeqMax(Times(store[mi.video_id])) + 4
             /\ mj.end_time.v = SeqMax(Times(store[mj.video_id])) - 4
             /\ mj.start_time.v <= SeqMax(Times(store[mj.video_id]))

Parseable == { i \in DOMAIN request.moments :
                 request.moments[i].start_time.ok /\ request.moments[i].end_time.ok }

DurationOf(i) == request.moments[i].end_time.v - request.moments[i].start_time.v

\* C6: pure_duration is the least end - start over the moments (those whose
\* times parse), effective_post = pure_duration + post_extra, and the shared
\* grid is 100 evenly spaced points from -pre_duration to effective_post;
\* with both sliders at 0 it runs from 0 to pure_duration.
C6_GridSpansWindow ==
    IsLine =>
      LET l == response.locals
          g == l.common_time
      IN  /\ Parseable # {} =>
                /\ \E i \in Parseable : l.pure_duration = DurationOf(i)
                /\ \A i \in Parseable : l.pure_duration <= DurationOf(i)
          /\ l.effective_post = l.pure_duration + request.post_extra
          /\ Len(g) = 100
          /\ g[1] = RatOf(-request.pre_duration)
          /\ g[100] = RatOf(l.effective_post)
          /\ \A k \in 1..99 :
               RSub(g[k + 1], g[k]) = Rat(l.effective_post + request.pre_duration, 99)
          /\ (request.pre_duration = 0 /\ request.post_extra = 0) =>
               g[1] = RatOf(0) /\ g[100] = RatOf(l.pure_duration)

C6_Witness ==
    /\ IsLine
    /\ response.status = 200
    /\ request.pre_duration > 0
    /\ request.post_extra > 0
    /\ \E i, j \in Parseable : i < j /\ DurationOf(j) < DurationOf(i)

\* the included moments whose dataset has column c, in request order
Contributing(c) ==
    SelectSeq([i \in DOMAIN request.moments |-> i],
              LAMBDA i : /\ response.locals.fate[i] = "included"
                         /\ c \in store[request.moments[i].video_id].columns)

\* the value moment i gives measure c at grid point p
InterpolatedAt(i, c, p) ==
    LET m == request.moments[i]
        g == LineSegment(store[m.video_id], m.start_time.v, request.pre_duration,
                         response.locals.effective_post)
    IN  interp(response.locals.common_time[p],
               [j \in DOMAIN g.rows |-> g.rows[j].RelativeTime],
               [j \in DOMAIN g.rows |-> g.rows[j].val[c]])

\* C7: on a line page, the value of every measure at every grid point is the
\* arithmetic mean of the interpolated values of exactly the included moments
\* whose dataset has the measure's column; a measure without such a moment
\* has no values at all (None), never zeros.
C7_MeanOfContributors ==
    (IsLine /\ response.status = 200) =>
      \A c \in MeasureSet :
        LET who == Contributing(c)
        IN  IF who = <<>>
            THEN response.averaged[c] = <<>>
            ELSE /\ Len(response.averaged[c]) = 100
                 /\ \A p \in 1..100 :
                      LET vals == [k \in DOMAIN who |-> InterpolatedAt(who[k], c, p)]
                      IN  IF \E k \in DOMAIN vals : IsNaN(vals[k])
                          THEN IsNaN(response.averaged[c][p])
                          ELSE RMul(response.averaged[c][p], RatOf(Len(who))) = RSum(vals)

C7_Witness ==
    /\ IsLine
    /\ response.status = 200
    /\ Len(Contributing("Engagement")) = 2
    /\ Len(Contributing("Approach / Withdraw")) = 1
    /\ Contributing("Emotional Intensity") = <<>>
    /\ ~IsNaN(response.averaged["Engagement"][50])
    /\ response.averaged["Engagement"][50] # response.averaged["Engagement"][1]

Shuffles(s) ==
    { [i \in DOMAIN s |-> s[f[i]]] :
        f \in { h \in [DOMAIN s -> DOMAIN s] : \A i, j \in DOMAIN s : h[i] = h[j] => i = j } }

Count(s, v) == Cardinality({ i \in DOMAIN s : s[i] = v })
SameBag(s, t) ==
    /\ Len(s) = Len(t)
    /\ \A v \in Range(s) \cup Range(t) : Count(s, v) = Count(t, v)

WithoutUnparseable ==
    SelectSeq(request.moments, LAMBDA m : m.start_time.ok /\ m.end_time.ok)

\* moment m, with numeric times, yields values: its dataset is read, has
\* measure columns, its window holds samples and, in line mode, it passes
\* the coverage check
Yields(m) ==
    /\ store[m.video_id].kind = "csv"
    /\ store[m.video_id].columns # {}
    /\ ~NoSamples(m)
    /\ Sliders => ~OutsideAvailable(store[m.video_id], m)

AsNotFound == [v \in VideoIds |-> IF store[v].kind = "unreadable" THEN Missing ELSE store[v]]

\* C10: a read failure on a moment's dataset is handled exactly like a
\* missing dataset: the moment contributes nothing and is not reported, so
\* the outcome is the one the request has with the file absent, in
\* compute_averages, aggregated_box and aggregated_line.
C10_ReadFailureLikeNotFound ==
    /\ IsAvg => LET r == compute_averages_page(AsNotFound, request.moments)
                IN  /\ response.status = r.status
                    /\ response.status = 200 =>
                         response.average_metrics = r.average_metrics
    /\ IsBox => response.box_data = box_data_of(AsNotFound, request.moments)
    /\ IsLine =>
         LET r == aggregated_line(AsNotFound, request.moments, request.pre_duration,
                                  request.post_extra, pure_duration_of(request.moments), request.query)
         IN  SameLineOutcome(response, r)

\* moment m has numeric times and its video has no dataset file
NotFound(m) == Parses(m) /\ store[m.video_id].kind = "missing"

\* C11: a moment whose video has no dataset is skipped silently: the outcome
\* is that of the request without it (it contributes no values, and the
\* request does not abort because of it), and in line mode its label is not
\* among the excluded ones; in compute_averages, aggregated_box and
\* aggregated_line.
C11_NotFoundSkipped ==
    \A i \in (IF IsAvg \/ IsBox \/ IsLine THEN DOMAIN request.moments ELSE {}) :
      LET m    == request.moments[i]
          rest == RemoveAt(request.moments, i)
      IN  NotFound(m) =>
            /\ IsAvg =>
                 LET r == compute_averages_page(store, rest)
                 IN  /\ response.status = r.status
                     /\ response.status = 200 =>
                          /\ response.segments = r.segments
                          /\ response.average_metrics = r.average_metrics
            /\ IsBox =>
                 /\ response.status = 200
                 /\ response.box_data = box_data_of(store, rest)
            /\ IsLine =>
                 /\ response.locals.fate[i] = "notfound"
                 /\ m.ad_name \notin Range(response.locals.excluded_names)
                 /\ SameLineOutcome(response,
                      aggregated_line(store, rest, request.pre_duration,
                                      request.post_extra,
                                      pure_duration_of(request.moments), request.query))

C11_Witness ==
    /\ IsLine
    /\ Sliders
    /\ response.status = 200
    /\ \E i, j \in DOMAIN request.moments :
         /\ NotFound(request.moments[i])
         /\ response.locals.fate[j] = "included"
    /\ response.excluded_names = <<>>

\* t is the Time of a row of df
ExactSample(df, t) == df.kind = "csv" /\ \E j \in DOMAIN df.rows : df.rows[j].Time = t

\* the request extracts one segment, from the dataset of video v, with the
\* given start and end
Extracts(v, st, et) ==
    \/ /\ request.route \in {"update_metrics", "render_clip"}
       /\ request.video_id = v /\ request.start_time = st /\ request.end_time = et
    \/ /\ IsAvg \/ IsBox
       /\ Len(request.moments) = 1
       /\ request.moments[1] = Moment(v, <<Num(st), Num(et)>>)

\* the rows the response was computed from
ExtractedRows ==
    IF request.route \in {"update_metrics", "render_clip"}
    THEN IF response.content \in {"metrics", "CSV Metrics"} THEN response.segment ELSE <<>>
    ELSE IF IsAvg
    THEN IF response.status = 200 THEN response.segments[1].rows ELSE <<>>
    ELSE [j \in DOMAIN response.box_data["Engagement"] |->
            [val |-> response.box_data["Engagement"][j]]]

\* C12 as stated: for every exact sample timestamp t, extracting with
\* start = end = t yields exactly one sample.
C12_OneSamplePerTimestamp ==
    \A v \in VideoIds, t \in ProbeTimes :
      (Extracts(v, t, t) /\ ExactSample(store[v], t)) => Len(ExtractedRows) = 1

\* C12, amended: the segment holds exactly the rows with start <= Time <= end,
\* both bounds included, where an end within 0.05 of the last timestamp
\* counts as the last timestamp; so start = end = t on an exact sample
\* timestamp t yields that one sample when t is the last timestamp or lies
\* more than 0.05 before it, and every sample from t to the last otherwise.
C12_InclusiveBounds ==
    \A v \in VideoIds, st \in ProbeTimes :
      \A et \in ProbeTimes \cup { t + SampleStep : t \in ProbeTimes } :
        (Extracts(v, st, et) /\ store[v].kind = "csv") =>
          LET df   == store[v]
              last == SeqMax(Times(df))
              hi   == IF Abs(et - last) <= tol THEN last ELSE et
              rows == SelectSeq(df.rows, LAMBDA r : st <= r.Time /\ r.Time <= hi)
          IN  /\ Len(ExtractedRows) = Len(rows)
              /\ \A j \in DOMAIN rows :
                    IF IsBox THEN ExtractedRows[j].val = rows[j].val["Engagement"]
                    ELSE ExtractedRows[j] = rows[j]
              /\ (st = et /\ ExactSample(df, st) /\ (st = last \/ st < last - tol)) =>
                    Len(ExtractedRows) = 1

C12_Witness ==
    /\ request.route = "update_metrics"
    /\ request.start_time = request.end_time
    /\ ExactSample(store[request.video_id], request.start_time)
    /\ request.start_time > 0
    /\ request.start_time < SeqMax(Times(store[request.video_id])) - tol
    /\ Len(response.segment) = 1
    /\ response.segment[1].Time = request.start_time

\* the rows of moment m's window (end snapped to the last sample)
WindowRows(m) ==
    IF ~Readable(m) THEN <<>>
    ELSE LET df == store[m.video_id]
             hi == IF NearMax(df, m.end_time.v) THEN SeqMax(Times(df)) ELSE m.end_time.v
         IN  SelectSeq(df.rows, LAMBDA r : m.start_time.v <= r.Time /\ r.Time <= hi)

\* the non-missing values of measure c in moment m's window, in time order
WindowValues(m, c) ==
    IF ~Readable(m) \/ c \notin store[m.video_id].columns THEN <<>>
    ELSE LET rows == SelectSeq(WindowRows(m), LAMBDA r : ~IsNaN(r.val[c]))
         IN  [j \in DOMAIN rows |-> rows[j].val[c]]

\* C13: in box mode each measure's pooled sample is the concatenation, in
\* moment order, of the measure's non-missing values over the moments'
\* windows; the CSV has a row for a measure exactly when its pooled sample
\* is not empty, so a measure without values has no row at all and no row
\* is without values.
C13_PooledConcatenation ==
    IsBox =>
      /\ \A c \in MeasureSet :
            /\ response.box_data[c] =
                 Concat([i \in DOMAIN request.moments |->
                           WindowValues(request.moments[i], c)])
            /\ (\E k \in 2..Len(response.csv) : response.csv[k][2] = Text(c))
                 <=> response.box_data[c] # <<>>
      /\ \A k \in 2..Len(response.csv) :
            /\ Len(response.csv[k]) > 2
            /\ \E c \in MeasureSet :
                  /\ response.csv[k][2] = Text(c)
                  /\ response.csv[k][3] = FloatCell(response.box_data[c][1])

C13_Witness ==
    /\ IsBox
    /\ Len(request.moments) = 2
    /\ Len(response.csv) = 2
    /\ response.box_data["Approach / Withdraw"] = <<>>
    /\ \A i \in DOMAIN request.moments :
         /\ WindowValues(request.moments[i], "Engagement") # <<>>
         /\ \E j \in DOMAIN WindowRows(request.moments[i]) :
              IsNaN(WindowRows(request.moments[i])[j].val["Engagement"])

\* the images of a call of handler h that runs with no other call in
\* progress: one tightened figure in box mode, six plain ones in line mode
ImagesAlone(h) ==
    IF h = "aggregated_box" THEN << [tight |-> TRUE] >>
    ELSE IF h = "aggregated_line" THEN [k \in 1..LineFigures |-> [tight |-> FALSE]]
    ELSE <<>>

\* C14: every aggregation call returns the result it returns when run alone,
\* whatever the interleaving with other calls, and leaves nothing behind:
\* the page's images are those of a call alone and no figure stays open
\* once every worker is idle.
C14_SameResultAsAlone ==
    /\ \A t \in Threads :
         calls[t].pc = "done" => calls[t].images = ImagesAlone(calls[t].handler)
    /\ (\A t \in Threads : calls[t] = Idle) => pyplot = <<>>

\* the stored cart
Cart == getStoredSelection(sessionStorage)

\* the cart held something and now holds nothing
CartFlushed == Cart # <<>> /\ Cart' = <<>>

\* the user's own empty, remove, uncheck and deselect actions
UserEmpties ==
    \/ emptyCart
    \/ deselectAll
    \/ \E value \in Watched(store) : removeCartItem(value)
    \/ \E value \in Watched(store) : toggleHighlight(value) /\ value \in page.checked

\* a results page is loaded for the query q
Loads(q) == \E conf_filter \in Filters, p \in Pages : search_results(q, conf_filter, p)

ExampleRequest ==
    /\ IsLine
    /\ request.moments = << Moment("A", <<Num(0), Num(200)>>), Moment("B", <<Num(0), Num(200)>>) >>
    /\ request.pre_duration = 0
    /\ request.post_extra = 0

\* pure_duration is 2 and the grid is 100 points over [0, 2]
ExampleGrid ==
    /\ response.status = 200
    /\ response.locals.pure_duration = 200
    /\ Len(response.locals.common_time) = 100
    /\ response.locals.common_time[1] = RatOf(0)
    /\ response.locals.common_time[100] = RatOf(200)

\* C16 as stated: in the example the grid has a point t = 1 and the averaged
\* Engagement there is 0.45.
C16_GridPointOne ==
    ExampleRequest =>
      /\ ExampleGrid
      /\ \E p \in 1..GridPoints :
           /\ response.locals.common_time[p] = RatOf(100)
           /\ response.averaged["Engagement"][p] = Rat(9, 20)

\* C16, amended: in the example pure_duration is 2, the grid is 100 points
\* over [0, 2] and the averaged Engagement at a grid point t is 0.25 + 0.2 t;
\* t = 1 lies midway between the 50th and the 51st grid point, whose averaged
\* values are equally far below and above 0.45.
C16_ExampleCurve ==
    ExampleRequest =>
      LET g == response.locals.common_time
          e == response.averaged["Engagement"]
      IN  /\ ExampleGrid
          /\ \A p \in 1..GridPoints :
               e[p] = RAdd(Rat(1, 4), RDiv(g[p], RatOf(500)))
          /\ \A p \in 1..GridPoints : g[p] # RatOf(100)
          /\ RAdd(g[50], g[51]) = RatOf(200)
          /\ RAdd(e[50], e[51]) = Rat(9, 10)

C16_Witness ==
    /\ ExampleRequest
    /\ response.status = 200
    /\ response.averaged["Engagement"] # None

\* the measures that have pooled values in the answer
Pooled == { c \in MeasureSet : response.box_data[c] # <<>> }

\* C17: the pooled-mode CSV has the header Query, Measure, Value_1..Value_N
\* with N the size of the largest pooled sample; then one row per measure
\* that has pooled values, in canonical order, made of the query, the
\* measure, its values and empty cells up to N + 2 cells.
C17_BoxCsvShape ==
    IsBox =>
      LET csv == response.csv
          bd == response.box_data
          N == Len(csv[1]) - 2
      IN  /\ \A c \in MeasureSet : Len(bd[c]) <= N
          /\ N > 0 => \E c \in MeasureSet : Len(bd[c]) = N
          /\ csv[1][1] = Text("Query") /\ csv[1][2] = Text("Measure")
          /\ \A i \in 1..N : csv[1][i + 2] = [value_header |-> i]
          /\ Len(csv) = 1 + Cardinality(Pooled)
          /\ \A r \in 2..Len(csv) :
               /\ Len(csv[r]) = N + 2
               /\ csv[r][1] = QueryCell(request.query)
               /\ \E c \in Pooled :
                    /\ csv[r][2] = Text(c)
                    /\ \A i \in 1..N :
                         csv[r][i + 2] = IF i <= Len(bd[c]) THEN FloatCell(bd[c][i]) ELSE Text("")
                    /\ r > 2 => \E b \in Pooled : /\ csv[r - 1][2] = Text(b)
                                                  /\ MeasureIndex(b) < MeasureIndex(c)

\* a box answer with two pooled samples of different sizes: a padded row
C17_Witness ==
    /\ IsBox
    /\ \E c, d \in Pooled : Len(response.box_data[c]) < Len(response.box_data[d])

\* the rows of the CSV download of a line page
LineCsv == line_csv(request.query, response.locals.common_time, response.averaged)

TimeCellMs(i) == RatOf(LineCsv[i + 1][2].int)
GridMs(i) == RMul(RatOf(10), response.locals.common_time[i])

\* C19: reading every Time(ms) cell of the aligned CSV back recovers the
\* 100 grid values, here to within a thousandth of a millisecond, and no two
\* distinct grid values come back as the same time.
C19_TimeRoundTrip ==
    (IsLine /\ response.status = 200) =>
      /\ \A i \in 1..GridPoints :
           /\ RLe(RSub(GridMs(i), TimeCellMs(i)), Rat(1, 1000))
           /\ RLe(RSub(TimeCellMs(i), GridMs(i)), Rat(1, 1000))
      /\ \A i, j \in 1..GridPoints :
           GridMs(i) # GridMs(j) => TimeCellMs(i) # TimeCellMs(j)

\* the answer carries a CSV download
HasDownload == (IsLine \/ IsBox) /\ response.status = 200

\* the name of the download without its "_results.csv" ending
DownloadStem == SubSeq(response.filename, 1, Len(response.filename) - 12)

\* C20: the download's filename is the query with every character that is
\* alphanumeric, '_' or '-' kept and every other one replaced by '_',
\* followed by "_results.csv": the stem has the query's length, holds only
\* safe characters, and safe_filename leaves it as it is.
C20_SafeFilename ==
    HasDownload =>
      LET q == request.query
          stem == DownloadStem
      IN  /\ response.filename = stem \o <<"_", "r", "e", "s", "u", "l", "t", "s", ".", "c", "s", "v">>
          /\ Len(stem) = Len(q)
          /\ \A i \in DOMAIN q :
               stem[i] = IF q[i] \in AlNum \cup {"_", "-"} THEN q[i] ELSE "_"
          /\ \A i \in DOMAIN stem : stem[i] \in AlNum \cup {"_", "-"}
          /\ safe_filename(stem) = stem
          /\ safe_filename(safe_filename(q)) = safe_filename(q)

\* a download for a query that holds both a kept and a replaced character
C20_Witness ==
    /\ HasDownload
    /\ \E i, j \in DOMAIN request.query :
         /\ request.query[i] \in AlNum
         /\ request.query[j] \notin AlNum \cup {"_", "-"}

\* the line answer to the request with every end that lies within tol of
\* its dataset's last sample moved onto that sample
LineAtMax ==
    aggregated_line(store, EndsAtMax(request.moments), request.pre_duration,
                    request.post_extra, pure_duration_of(EndsAtMax(request.moments)),
                    request.query)

\* C21: in line mode a moment whose end lies within 0.05 of its dataset's
\* last sample is aggregated as if its end were that sample: pure_duration,
\* the shared grid, which moments are included and the averaged curves are
\* those of the request with the end moved onto the last sample.
C21_LineEndSnapping ==
    IsLine =>
      /\ response.status = LineAtMax.status
      /\ response.locals.pure_duration = LineAtMax.locals.pure_duration
      /\ response.locals.common_time = LineAtMax.locals.common_time
      /\ response.locals.fate = LineAtMax.locals.fate
      /\ response.status = 200 => response.averaged = LineAtMax.averaged

\* C22: on a results page, once loaded and after any toggles, Select All,
\* Deselect All, Remove and Empty Cart, a checkbox is checked exactly when
\* its value is in the stored cart, and the displayed count is the number
\* of stored selections.
C22_CheckboxesMatchCart ==
    page.kind = "search" =>
      /\ \A v \in Range(page.values) : v \in page.checked <=> v \in Range(Cart)
      /\ page.cartCount = Len(Cart)

\* no value occurs twice in s
NoDuplicates(s) == \A i, j \in DOMAIN s : s[i] = s[j] => i = j

\* s without the value v, the others in their order
Without(s, v) == SelectSeq(s, LAMBDA x : x # v)

\* C23: the stored cart never holds the same value twice, whatever the page
\* loads, toggles, Select All, Deselect All, Remove and Empty Cart; the
\* Remove button of a value, and unchecking its checkbox, takes exactly that
\* value out of the cart and leaves the others in their order.
C23_NoDuplicates ==
    [][ /\ NoDuplicates(Cart) /\ NoDuplicates(Cart')
        /\ \A v \in Range(Cart) :
             (removeCartItem(v) \/ (toggleHighlight(v) /\ v \in page.checked))
               => (Cart' = Without(Cart, v) /\ Len(Cart') = Len(Cart) - 1) ]_vars

\* a results page after Select All and a Remove: the cart holds several
\* values and a checked value is no longer among them
C23_Witness ==
    /\ page.kind = "search"
    /\ Len(Cart) >= 2
    /\ \E v \in page.checked : v \notin Range(Cart)

\* a /search request for q is handled while one of the provider's calls fails
ProviderFails(q) ==
    \E conf_filter \in Filters, p \in Pages, fetched \in 0..(ProviderPages(q) - 1) :
        q \notin DOMAIN cache /\ search_results_with(q, conf_filter, p, fetched)

\* C24: over /search requests handled one at a time, an entry of the cache,
\* once set, is never modified or removed; a request for a cached query is
\* served from the cached clip list whatever its conf_filter and page; and a
\* request during which the provider fails leaves the cache unchanged.
C24_CacheSetOnce ==
    [][ \A q \in SearchQueries :
          /\ q \in DOMAIN cache => (q \in DOMAIN cache' /\ cache'[q] = cache[q])
          /\ (q \in DOMAIN cache /\ Loads(q)) =>
                page'.values = page_values(store, cache[q], page'.conf_filter, page'.page)
          /\ ProviderFails(q) => cache' = cache ]_vars

\* the clips of the cached result lists
CachedClips == UNION { Range(cache[q].clips) : q \in DOMAIN cache }

\* the five fields render_clip encodes for a clip
EncodedFields(clip) ==
    [video_id |-> <<clip.video_id>>, default_start |-> FloatStr(clip.start),
     default_end |-> FloatStr(clip.end), thumbnail_url |-> clip.thumbnail_url,
     ad_name |-> clip_ad_name(store, clip.video_id)]

\* none of the clip's fields contains '|'
NoBar(clip) ==
    \A f \in { EncodedFields(clip)[k] : k \in DOMAIN EncodedFields(clip) } :
        "|" \notin Range(f)

\* the value the clip's checkbox puts in the cart
CartValue(clip) == attribute_value(checkbox_value(store, clip))

\* C25: select_timepoints renders a moment for exactly the cart values that
\* split on '|' into five parts and skips the others; a selected clip none
\* of whose fields contains '|' comes back with the video id, start, end,
\* thumbnail URL and ad name that render_clip encoded; an empty or
\* unparseable cart gets the 400 answer "No moments selected.".
C25_SelectionRoundTrip ==
    [][ \A cartSelections \in {Json(Cart), NotJson} :
          select_timepoints_of(cartSelections) =>
            LET selections == json_loads(cartSelections)
                five == { i \in DOMAIN selections : Len(split(selections[i])) = 5 }
            IN  /\ selections = <<>> =>
                     (page'.kind = "error" /\ page'.status = 400
                        /\ page'.content = "No moments selected.")
                /\ selections # <<>> =>
                     /\ page'.kind = "timepoints"
                     /\ Len(page'.moments) = Cardinality(five)
                     /\ \A clip \in CachedClips :
                          (NoBar(clip) /\ CartValue(clip) \in Range(selections))
                            => EncodedFields(clip) \in Range(page'.moments) ]_vars

====
